---- MODULE Spec2Model ----
(***************************************************************************)
(* Model of generate_convex.py: the single-file transform                  *)
(* generate_convex_stl and the directory batch                             *)
(* batch_convex_hull_generation, over an explicit file system.             *)
(*                                                                         *)
(* A file name is a sequence of one-character strings, a path is a         *)
(* sequence of names relative to the working directory (<<>> is Path(".")),*)
(* a point is a triple of integers, a triangle a triple of points and a    *)
(* mesh a sequence of triangles.                                           *)
(***************************************************************************)
EXTENDS Integers, Sequences, FiniteSets, TLC

\* ------------------------------------------------------------------ bounds

\* Largest number of entries the input directory holds initially.
MaxEntries == 3

\* Largest number of times the batch is run in a row with the same arguments.
MaxRuns == 2

\* ------------------------------------------------------------- characters

\* The characters of file names, in ASCII order (str comparison order).
AsciiOrder ==
  << ".", "A", "B", "C", "D", "E", "F", "G", "H", "I", "J", "K", "L", "M",
     "N", "O", "P", "Q", "R", "S", "T", "U", "V", "W", "X", "Y", "Z", "_",
     "a", "b", "c", "d", "e", "f", "g", "h", "i", "j", "k", "l", "m",
     "n", "o", "p", "q", "r", "s", "t", "u", "v", "w", "x", "y", "z" >>

Code(c) == CHOOSE i \in 1..Len(AsciiOrder) : AsciiOrder[i] = c

\* str.lower() on one character: "A".."Z" sit at 2..27, "a".."z" at 29..54.
LowerChar(c) == IF Code(c) \in 2..27 THEN AsciiOrder[Code(c) + 27] ELSE c

\* str.lower()
Lower(s) == [i \in 1..Len(s) |-> LowerChar(s[i])]

RECURSIVE StrLessFrom(_, _, _)
StrLessFrom(a, b, i) ==
  IF i > Len(a) THEN i <= Len(b)
  ELSE IF i > Len(b) THEN FALSE
  ELSE IF a[i] = b[i] THEN StrLessFrom(a, b, i + 1)
  ELSE Code(a[i]) < Code(b[i])

\* a < b on str
StrLess(a, b) == StrLessFrom(a, b, 1)

RECURSIVE PathLessFrom(_, _, _)
PathLessFrom(p, q, i) ==
  IF i > Len(p) THEN i <= Len(q)
  ELSE IF i > Len(q) THEN FALSE
  ELSE IF p[i] = q[i] THEN PathLessFrom(p, q, i + 1)
  ELSE StrLess(p[i], q[i])

\* p < q on PurePosixPath: the lists of parts, compared lexicographically.
PathLess(p, q) == PathLessFrom(p, q, 1)

RECURSIVE SortedPaths(_)
\* sorted(...) of a set of paths
SortedPaths(S) ==
  IF S = {} THEN <<>>
  ELSE LET m == CHOOSE x \in S : \A y \in S \ {x} : PathLess(x, y)
       IN <<m>> \o SortedPaths(S \ {m})

\* ------------------------------------------------------------------ paths

Range(s) == {s[i] : i \in 1..Len(s)}

\* Position of the last "." of a name, 0 when there is none (str.rfind).
LastDot(name) ==
  IF \E i \in 1..Len(name) : name[i] = "."
  THEN CHOOSE i \in 1..Len(name) :
         name[i] = "." /\ \A j \in (i + 1)..Len(name) : name[j] # "."
  ELSE 0

\* PurePath.suffix: from the last dot, unless the dot leads or ends the name.
PathSuffix(name) ==
  LET i == LastDot(name)
  IN IF 1 < i /\ i < Len(name) THEN SubSeq(name, i, Len(name)) ELSE <<>>

\* PurePath.stem: the name without its suffix.
PathStem(name) ==
  LET i == LastDot(name)
  IN IF 1 < i /\ i < Len(name) THEN SubSeq(name, 1, i - 1) ELSE name

\* PurePath.name
Name(p) == p[Len(p)]

\* os.path.dirname(str(p)) of a relative path: everything before the last
\* part; for a bare file name this is the empty string, modelled as <<>>.
Dirname(p) == SubSeq(p, 1, Len(p) - 1)

\* The proper, non-empty prefixes of a directory path, and the path itself.
Ancestors(d) == {SubSeq(d, 1, k) : k \in 1..Len(d)}

DotStl == <<".", "s", "t", "l">>

\* The default of the suffix parameter: ".stl.convex".
DefaultSuffix == <<".", "s", "t", "l", ".", "c", "o", "n", "v", "e", "x">>

\* The default of the output_directory parameter.
None == [given |-> FALSE, path |-> <<>>]

\* ------------------------------------------------------------ file system

DirEntry == [kind |-> "dir", mesh |-> <<>>]

FileEntry(m) == [kind |-> "file", mesh |-> m]

Exists(f, p) == p = <<>> \/ p \in DOMAIN f

\* os.path.isdir / Path.is_dir; the working directory always exists.
IsDir(f, p) == p = <<>> \/ (p \in DOMAIN f /\ f[p].kind = "dir")

\* os.path.isfile
IsFile(f, p) == p \in DOMAIN f /\ f[p].kind = "file"

\* The result of creating directory d and its missing ancestors.
WithDirs(f, d) ==
  [p \in (DOMAIN f) \cup Ancestors(d) |-> IF p \in DOMAIN f THEN f[p] ELSE DirEntry]

\* Path.mkdir(parents=True, exist_ok=True): Path(".") exists already.
PathMkdir(f, d) ==
  IF \E a \in Ancestors(d) : IsFile(f, a)
  THEN [ok |-> FALSE, fs |-> f, error |-> "FileExistsError"]
  ELSE [ok |-> TRUE, fs |-> WithDirs(f, d), error |-> ""]

\* os.makedirs(name, exist_ok=True): the empty name is no directory.
Makedirs(f, d) ==
  IF d = <<>>
  THEN [ok |-> FALSE, fs |-> f, error |-> "FileNotFoundError"]
  ELSE IF \E a \in Ancestors(d) : IsFile(f, a)
  THEN [ok |-> FALSE, fs |-> f, error |-> "FileExistsError"]
  ELSE [ok |-> TRUE, fs |-> WithDirs(f, d), error |-> ""]

\* Path.iterdir(): the entries directly under directory d.
Iterdir(f, d) ==
  {p \in DOMAIN f : Len(p) = Len(d) + 1 /\ SubSeq(p, 1, Len(d)) = d}

\* --------------------------------------------------------------- geometry

\* The value np.zeros gives every coordinate of a fresh mesh.
Zero == <<0, 0, 0>>

\* original_mesh.vectors.reshape(-1, 3): the 3n vertices of n triangles.
Flatten(m) ==
  [i \in 1..(3 * Len(m)) |-> m[((i - 1) \div 3) + 1][((i - 1) % 3) + 1]]

\* Row order of np.unique(axis=0): lexicographic on the coordinates.
PointLess(a, b) ==
  \/ a[1] < b[1]
  \/ a[1] = b[1] /\ a[2] < b[2]
  \/ a[1] = b[1] /\ a[2] = b[2] /\ a[3] < b[3]

RECURSIVE SortedPoints(_)
SortedPoints(S) ==
  IF S = {} THEN <<>>
  ELSE LET m == CHOOSE x \in S : \A y \in S \ {x} : PointLess(x, y)
       IN <<m>> \o SortedPoints(S \ {m})

\* np.unique(points, axis=0): the distinct rows, sorted.
Unique(points) == SortedPoints(Range(points))

\* Six times the signed volume of the tetrahedron a b c d.
Orient(a, b, c, d) ==
  LET u == <<b[1] - a[1], b[2] - a[2], b[3] - a[3]>>
      v == <<c[1] - a[1], c[2] - a[2], c[3] - a[3]>>
      w == <<d[1] - a[1], d[2] - a[2], d[3] - a[3]>>
  IN   u[1] * (v[2] * w[3] - v[3] * w[2])
     - u[2] * (v[1] * w[3] - v[3] * w[1])
     + u[3] * (v[1] * w[2] - v[2] * w[1])

Coplanar(vs) ==
  \A i, j, k, l \in 1..Len(vs) : Orient(vs[i], vs[j], vs[k], vs[l]) = 0

SimplexLess(s, t) ==
  \/ s[1] < t[1]
  \/ s[1] = t[1] /\ s[2] < t[2]
  \/ s[1] = t[1] /\ s[2] = t[2] /\ s[3] < t[3]

RECURSIVE SortedSimplices(_)
SortedSimplices(S) ==
  IF S = {} THEN <<>>
  ELSE LET m == CHOOSE x \in S : \A y \in S \ {x} : SimplexLess(x, y)
       IN <<m>> \o SortedSimplices(S \ {m})

\* The facets of the hull of points in general position: the index triples
\* whose plane has every other point on one side and some point off it.
\* Indices count from 1 here and from 0 in hull.simplices.
Facets(vs) ==
  {s \in (1..Len(vs)) \X (1..Len(vs)) \X (1..Len(vs)) :
     /\ s[1] < s[2] /\ s[2] < s[3]
     /\ \E l \in 1..Len(vs) : Orient(vs[s[1]], vs[s[2]], vs[s[3]], vs[l]) # 0
     /\ \/ \A l \in 1..Len(vs) : Orient(vs[s[1]], vs[s[2]], vs[s[3]], vs[l]) >= 0
        \/ \A l \in 1..Len(vs) : Orient(vs[s[1]], vs[s[2]], vs[s[3]], vs[l]) <= 0}

\* ConvexHull(vertices): Qhull raises QhullError when the initial simplex is
\* flat (fewer than 4 points, or all points in one plane).
ConvexHull(vs) ==
  IF Len(vs) < 4 \/ Coplanar(vs)
  THEN [ok |-> FALSE, simplices |-> <<>>, cause |-> "QhullError"]
  ELSE [ok |-> TRUE, simplices |-> SortedSimplices(Facets(vs)), cause |-> ""]

\* mesh.Mesh(np.zeros(n, dtype=mesh.Mesh.dtype)): n all-zero triangles.
ZeroMesh(n) == [i \in 1..n |-> <<Zero, Zero, Zero>>]

\* The loop stopping one facet early: the last triangle stays all-zero.
FillMeshSkipsLast(m, simplices, vertices) ==
  [i \in 1..Len(m) |->
     IF i < Len(simplices)
     THEN <<vertices[simplices[i][1]], vertices[simplices[i][2]],
            vertices[simplices[i][3]]>>
     ELSE m[i]]

\* The loop convex_mesh.vectors[i] = vertices[simplex] over every facet.
FillMesh(m, simplices, vertices) ==
  [i \in 1..Len(m) |->
     IF i <= Len(simplices)
     THEN <<vertices[simplices[i][1]], vertices[simplices[i][2]],
            vertices[simplices[i][3]]>>
     ELSE m[i]]

\* ------------------------------------------------------------------ meshes

PA == <<4, 0, 0>>
PB == <<0, 4, 0>>
PC == <<0, 0, 4>>
PD == <<4, 4, 4>>
PE == <<2, 2, 2>>
PF == <<4, 4, 0>>

\* A closed tetrahedron: 4 triangles over 4 points.
Tetra == << <<PA, PB, PC>>, <<PA, PB, PD>>, <<PA, PC, PD>>, <<PB, PC, PD>> >>

\* 5 unique points, PE strictly inside the tetrahedron PA PB PC PD.
TetraInner == << <<PA, PB, PE>>, <<PC, PD, PE>>, <<PA, PB, PC>>, <<PA, PB, PD>> >>

\* 4 unique points, all in the plane z = 0.
Flat4 == << <<PA, PB, PF>>, <<PA, PF, <<8, 0, 0>>>> >>

\* 2 triangles, 6 vertices, 3 unique points.
Tri2 == << <<PA, PB, PC>>, <<PC, PA, PB>> >>

\* ----------------------------------------------------- generate_convex_stl

LogLine(level, msg, path, n, cause) ==
  [level |-> level, msg |-> msg, path |-> path, n |-> n, cause |-> cause]

\* The check with its threshold one too low.
EnoughVerticesOffByOne(vertices) == Len(vertices) >= 3

\* if len(vertices) < 4: ... return
EnoughVertices(vertices) == Len(vertices) >= 4

\* A handler too narrow for what ConvexHull raises.
CatchesValueErrorOnly(exc) == exc = "ValueError"

\* except Exception as e: QhullError is an Exception.
Catches(exc) == TRUE

\* convex_mesh.save(output_stl_path): opens the path for writing.
Save(f, path, m) ==
  IF IsDir(f, path)
  THEN [ok |-> FALSE, fs |-> f, error |-> "IsADirectoryError"]
  ELSE IF ~IsDir(f, Dirname(path))
  THEN [ok |-> FALSE, fs |-> f, error |-> "FileNotFoundError"]
  ELSE [ok |-> TRUE, fs |-> (path :> FileEntry(m)) @@ f, error |-> ""]

\* One call of generate_convex_stl on file system f: the file system it
\* leaves, the lines it prints, the number of ConvexHull calls it makes, how
\* it ends and the exception it lets through ("" when it returns).
generate_convex_stl(f, input_stl_path, output_stl_path) ==
  IF ~IsFile(f, input_stl_path)
  THEN [fs |-> f, hulls |-> 0, outcome |-> "not_file", error |-> "",
        log |-> <<LogLine("WARN", "File not found, skip", input_stl_path, 0, "")>>]
  ELSE
    LET original_mesh == f[input_stl_path].mesh
        loaded == LogLine("INFO", "Loaded", input_stl_path, Len(original_mesh), "")
        vertices == Unique(Flatten(original_mesh))
    IN IF ~EnoughVertices(vertices)
       THEN [fs |-> f, hulls |-> 0, outcome |-> "few_vertices", error |-> "",
             log |-> <<loaded, LogLine("WARN", "Not enough vertices to form a 3D convex hull",
                                       input_stl_path, 0, "")>>]
       ELSE
         LET hull == ConvexHull(vertices)
         IN IF ~hull.ok
            THEN IF Catches(hull.cause)
                 THEN [fs |-> f, hulls |-> 1, outcome |-> "hull_failed", error |-> "",
                       log |-> <<loaded, LogLine("ERROR", "Failed to compute convex hull for",
                                                 input_stl_path, 0, hull.cause)>>]
                 ELSE [fs |-> f, hulls |-> 1, outcome |-> "raised", error |-> hull.cause,
                       log |-> <<loaded>>]
            ELSE
              LET convex_triangles == hull.simplices
                  convex_mesh == FillMesh(ZeroMesh(Len(convex_triangles)),
                                          convex_triangles, vertices)
                  made == Makedirs(f, Dirname(output_stl_path))
                  saved == Save(made.fs, output_stl_path, convex_mesh)
              IN IF ~made.ok
                 THEN [fs |-> made.fs, hulls |-> 1, outcome |-> "raised",
                       error |-> made.error, log |-> <<loaded>>]
                 ELSE IF ~saved.ok
                 THEN [fs |-> saved.fs, hulls |-> 1, outcome |-> "raised",
                       error |-> saved.error, log |-> <<loaded>>]
                 ELSE [fs |-> saved.fs, hulls |-> 1, outcome |-> "saved", error |-> "",
                       log |-> <<loaded, LogLine("INFO", "Convex hull saved to",
                                                 output_stl_path, 0, "")>>]

\* ------------------------------------------------------------------- state

VARIABLES
  fs,                \* the file system: path -> directory or file with its mesh
  pc,                \* "idle", "loop" (inside the batch's for loop), "returned", "raised"
  mode,              \* which function was called: "none", "batch", "single"
  input_directory,   \* the batch's arguments
  output_directory,
  suffix,
  input_dir,         \* the batch's locals
  output_dir,
  stl_files,
  idx,               \* position of the for loop in stl_files
  error,             \* the exception that reached the caller, "" when none
  log,               \* the lines printed to standard output
  calls,             \* the generate_convex_stl calls of the current run
  hulls,             \* the number of ConvexHull calls made so far
  runs,              \* how many times the batch has been started
  snap               \* the file system as the previous run of the batch left it

vars == <<fs, pc, mode, input_directory, output_directory, suffix, input_dir,
          output_dir, stl_files, idx, error, log, calls, hulls, runs, snap>>

N_in == <<"i", "n">>
N_out == <<"o", "u", "t">>
N_o == <<"o">>
N_x == <<"x">>
N_y == <<"y">>
N_a_stl == <<"a", ".", "s", "t", "l">>
N_b_STL == <<"b", ".", "S", "T", "L">>
N_c_stl == <<"c", ".", "s", "t", "l">>
N_d_stl == <<"d", ".", "s", "t", "l">>
N_a_c_stl == <<"a", "_", "c", ".", "s", "t", "l">>
N_n_txt == <<"n", ".", "t", "x", "t">>
N_o_stl == <<"o", ".", "s", "t", "l">>
N_m_stl == <<"m", ".", "s", "t", "l">>

\* What the input directory may hold initially.
Catalogue ==
  { [name |-> N_a_stl, entry |-> FileEntry(TetraInner)],
    [name |-> N_b_STL, entry |-> FileEntry(Flat4)],
    [name |-> N_c_stl, entry |-> FileEntry(Tri2)],
    [name |-> N_d_stl, entry |-> DirEntry],
    [name |-> N_a_c_stl, entry |-> FileEntry(Tetra)],
    [name |-> N_n_txt, entry |-> FileEntry(Tetra)] }

\* The file system holding the entries S under directory root.
MkFS(root, S) ==
  [p \in Ancestors(root) \cup {root \o <<e.name>> : e \in S} |->
     IF p \in Ancestors(root) THEN DirEntry
     ELSE (CHOOSE e \in S : p = root \o <<e.name>>).entry]

InitialFileSystems ==
  {MkFS(root, S) : root \in {<<>>, <<N_in>>},
                   S \in {T \in SUBSET Catalogue : Cardinality(T) <= MaxEntries}}

InputDirectories == {<<>>, <<N_in>>}

OutputDirectories ==
  {None} \cup {[given |-> TRUE, path |-> d] : d \in {<<>>, <<N_out>>, <<N_in, N_o>>}}

Suffixes == {<<>>, <<"_", "c">>, DefaultSuffix}

SingleOutputs == {<<N_o_stl>>, <<N_out, N_o_stl>>, <<N_x, N_y, N_o_stl>>}

Init ==
  /\ fs \in InitialFileSystems
  /\ pc = "idle"
  /\ mode = "none"
  /\ input_directory = <<>>
  /\ output_directory = None
  /\ suffix = DefaultSuffix
  /\ input_dir = <<>>
  /\ output_dir = <<>>
  /\ stl_files = <<>>
  /\ idx = 1
  /\ error = ""
  /\ log = <<>>
  /\ calls = <<>>
  /\ hulls = 0
  /\ runs = 0
  /\ snap = fs

\* ----------------------------------------------- batch_convex_hull_generation

\* p.suffix.lower() == ".stl"
IsStl(p) == Lower(PathSuffix(Name(p))) = DotStl

\* The batch without its early return.
NoEarlyReturn(files) == FALSE

\* if not stl_files: ... return
NoStlFiles(files) == files = <<>>

\* The batch up to its for loop, called with (ind, outd, suf): the output
\* directory is made, the input directory scanned and sorted, and the batch
\* returns at once when nothing was found.
BatchBegin(ind, outd, suf) ==
  LET odir == IF outd.given THEN outd.path ELSE ind
      made == PathMkdir(fs, odir)
      files == SortedPaths({p \in Iterdir(made.fs, ind) : IsStl(p)})
  IN /\ mode' = "batch"
     /\ input_directory' = ind
     /\ output_directory' = outd
     /\ suffix' = suf
     /\ input_dir' = ind
     /\ output_dir' = odir
     /\ calls' = <<>>
     /\ idx' = 1
     /\ hulls' = hulls
     /\ fs' = made.fs
     /\ IF ~made.ok
        THEN /\ pc' = "raised" /\ error' = made.error
             /\ stl_files' = <<>> /\ log' = log
        ELSE IF ~IsDir(made.fs, ind)
        THEN /\ pc' = "raised"
             /\ error' = IF Exists(made.fs, ind) THEN "NotADirectoryError"
                         ELSE "FileNotFoundError"
             /\ stl_files' = <<>> /\ log' = log
        ELSE /\ error' = ""
             /\ stl_files' = files
             /\ IF NoStlFiles(files)
                THEN /\ pc' = "returned"
                     /\ log' = Append(log, LogLine("WARN", "No STL files found in", ind, 0, ""))
                ELSE /\ pc' = IF Len(files) >= 1 THEN "loop" ELSE "returned"
                     /\ log' = Append(log, LogLine("INFO", "Found STL files in", ind,
                                                   Len(files), ""))

\* out_name = f"{stem}{suffix}.stl"; out_path = output_dir / out_name
OutPath(odir, in_path, suf) == odir \o <<PathStem(Name(in_path)) \o suf \o DotStl>>

\* A caller runs the batch.
BatchCall ==
  /\ pc = "idle"
  /\ \E ind \in InputDirectories, outd \in OutputDirectories, suf \in Suffixes :
       BatchBegin(ind, outd, suf)
  /\ runs' = runs + 1
  /\ snap' = snap

\* The caller runs the batch again with the same arguments.
BatchAgain ==
  /\ pc = "returned"
  /\ mode = "batch"
  /\ runs < MaxRuns
  /\ BatchBegin(input_directory, output_directory, suffix)
  /\ runs' = runs + 1
  /\ snap' = fs

\* One iteration of the for loop: generate_convex_stl on the next scanned
\* file; an exception it lets through ends the batch, and the batch returns
\* after the last file.
BatchFile ==
  /\ pc = "loop"
  /\ LET in_path == stl_files[idx]
         out_path == OutPath(output_dir, in_path, suffix)
     IN \E r \in {generate_convex_stl(fs, in_path, out_path)} :
        /\ fs' = r.fs
        /\ log' = log \o r.log
        /\ hulls' = hulls + r.hulls
        /\ error' = r.error
        /\ calls' = Append(calls, [in |-> in_path, out |-> out_path, outcome |-> r.outcome])
        /\ IF r.error # ""
           THEN pc' = "raised" /\ idx' = idx
           ELSE /\ idx' = idx + 1
                /\ pc' = IF idx < Len(stl_files) THEN "loop" ELSE "returned"
  /\ UNCHANGED <<mode, input_directory, output_directory, suffix, input_dir,
                 output_dir, stl_files, runs, snap>>

\* A caller calls generate_convex_stl directly.
SingleCall ==
  /\ pc = "idle"
  /\ \E in_path \in (DOMAIN fs) \cup {<<N_m_stl>>}, out_path \in SingleOutputs :
       \E r \in {generate_convex_stl(fs, in_path, out_path)} :
          /\ fs' = r.fs
          /\ log' = log \o r.log
          /\ hulls' = hulls + r.hulls
          /\ error' = r.error
          /\ calls' = <<[in |-> in_path, out |-> out_path, outcome |-> r.outcome]>>
          /\ pc' = IF r.error # "" THEN "raised" ELSE "returned"
  /\ mode' = "single"
  /\ UNCHANGED <<input_directory, output_directory, suffix, input_dir,
                 output_dir, stl_files, idx, runs, snap>>

Next == BatchCall \/ BatchAgain \/ BatchFile \/ SingleCall

Spec == Init /\ [][Next]_vars

\* ------------------------------------------------------------- properties

\* This step is a call of generate_convex_stl, recorded as TheCall.
CallStep == Len(calls') = Len(calls) + 1

TheCall == calls'[Len(calls')]

\* This step starts a run of the batch.
BeginStep == runs' = runs + 1

\* The points a mesh mentions.
PointSet(m) == {m[i][k] : i \in 1..Len(m), k \in 1..3}

AllCoplanar(S) == \A a, b, c, d \in S : Orient(a, b, c, d) = 0

\* The regular files of a file system with their contents.
Files(f) == [p \in {q \in DOMAIN f : f[q].kind = "file"} |-> f[p]]

LastLine(l) == l[Len(l)]

\* The input is a regular file with at least 4 unique, not all coplanar points.
PassesChecks(f, p) ==
  /\ IsFile(f, p)
  /\ Cardinality(PointSet(f[p].mesh)) >= 4
  /\ ~AllCoplanar(PointSet(f[p].mesh))

\* C1: in a run of the batch the calls of generate_convex_stl are the scanned
\* files in sorted order, one call each, and the batch ends (returns or
\* raises) only after the last scanned file has been processed.
C1_EveryScannedFileProcessed ==
  mode = "batch" =>
    /\ Len(calls) <= Len(stl_files)
    /\ \A i \in 1..Len(calls) : calls[i].in = stl_files[i]
    /\ pc \in {"returned", "raised"} => Len(calls) = Len(stl_files)

\* C2: no output path the batch computes is the path of a scanned input file.
C2_NeverTargetsAnInput ==
  mode = "batch" => \A i \in 1..Len(calls) : calls[i].out \notin Range(stl_files)

\* C3: a second (or later) run of the batch with the same arguments leaves
\* the directory state exactly as the run before it left it.
C3_RerunChangesNothing ==
  (mode = "batch" /\ runs >= 2 /\ pc = "returned") => fs = snap

\* C4: started on an input directory that does not exist, the batch raises to
\* its caller and does not create the input directory.
C4_MissingInputDirRaises ==
  [][(BeginStep /\ ~Exists(fs, input_directory'))
       => (pc' = "raised" /\ error' # "" /\ ~Exists(fs', input_directory'))]_vars

\* C5: a call on a regular file with fewer than 4 unique vertices prints a
\* warning as its last line, returns, makes no ConvexHull call and leaves the
\* file system (files and directories) unchanged.
C5_FewVerticesSkips ==
  [][(/\ CallStep
      /\ IsFile(fs, TheCall.in)
      /\ Cardinality(PointSet(fs[TheCall.in].mesh)) < 4)
       => (/\ fs' = fs
           /\ hulls' = hulls
           /\ error' = ""
           /\ pc' # "raised"
           /\ Len(log') = Len(log) + 2
           /\ LastLine(log') = LogLine("WARN", "Not enough vertices to form a 3D convex hull",
                                       TheCall.in, 0, ""))]_vars

C5_Witness ==
  \E i \in 1..Len(calls) :
    /\ calls[i].outcome = "few_vertices"
    /\ IsFile(fs, calls[i].in)
    /\ Len(fs[calls[i].in].mesh) = 2
    /\ Cardinality(PointSet(fs[calls[i].in].mesh)) = 3

\* C6: a call on a regular file with 4 or more unique points that all lie in
\* one plane prints an error line carrying the cause, returns without
\* raising and changes no file; in a batch the loop moves on to the next
\* scanned file, or returns when there is none.
C6_HullFailureSkips ==
  [][(/\ CallStep
      /\ IsFile(fs, TheCall.in)
      /\ Cardinality(PointSet(fs[TheCall.in].mesh)) >= 4
      /\ AllCoplanar(PointSet(fs[TheCall.in].mesh)))
       => (/\ fs' = fs
           /\ error' = ""
           /\ LastLine(log').level = "ERROR"
           /\ LastLine(log').path = TheCall.in
           /\ LastLine(log').cause # ""
           /\ mode' = "batch" =>
                /\ idx' = idx + 1
                /\ pc' = IF idx < Len(stl_files) THEN "loop" ELSE "returned")]_vars

C6_Witness ==
  /\ mode = "batch"
  /\ \E i \in 1..Len(calls) :
       /\ calls[i].outcome = "hull_failed"
       /\ i < Len(calls)
       /\ LastLine(log).level \in {"INFO", "WARN"}

\* C7: started on an existing input directory with no entry of extension
\* ".stl" (any case), the batch prints exactly one line, a warning, calls
\* generate_convex_stl not at all, writes no file and returns.
C7_EmptyScanWarns ==
  [][(/\ BeginStep
      /\ IsDir(fs, input_directory')
      /\ ~\E p \in Iterdir(fs, input_directory') : IsStl(p))
       => (/\ pc' = "returned"
           /\ error' = ""
           /\ log' = Append(log, LogLine("WARN", "No STL files found in",
                                         input_directory', 0, ""))
           /\ calls' = <<>>
           /\ hulls' = hulls
           /\ Files(fs') = Files(fs))]_vars

C7_Witness ==
  /\ mode = "batch"
  /\ pc = "returned"
  /\ stl_files = <<>>
  /\ Iterdir(fs, input_dir) # {}
  /\ LastLine(log).level = "WARN"

\* C8: a call whose input passes the three checks creates the missing parent
\* directories of the output path, writes the mesh there and returns, for a
\* nested output path and for a bare file name alike.
C8_WriteSucceeds ==
  [][(CallStep /\ PassesChecks(fs, TheCall.in))
       => (/\ error' = ""
           /\ IsDir(fs', Dirname(TheCall.out))
           /\ IsFile(fs', TheCall.out)
           /\ LastLine(log').msg = "Convex hull saved to")]_vars

\* C9: every call ends either with the mesh written and an INFO "saved" line
\* last, or with a WARN or ERROR line last and no file changed, never both
\* and never neither; the write happens only when the three checks passed.
C9_ExactlyOneOutcome ==
  [][CallStep =>
       LET written == /\ error' = ""
                      /\ IsFile(fs', TheCall.out)
                      /\ LastLine(log').level = "INFO"
                      /\ LastLine(log').msg = "Convex hull saved to"
           skipped == /\ error' = ""
                      /\ fs' = fs
                      /\ LastLine(log').level \in {"WARN", "ERROR"}
       IN /\ written \/ skipped
          /\ ~(written /\ skipped)
          /\ written => PassesChecks(fs, TheCall.in)
          /\ fs' # fs => PassesChecks(fs, TheCall.in)]_vars

\* C10: the mesh a successful call writes has one triangle per hull facet,
\* the facet's three indices resolved in the deduplicated point cloud; its
\* vertices all belong to that cloud, and every point of the cloud is a
\* vertex of a triangle of the source mesh.
C10_OutputFromDedupedCloud ==
  [][(CallStep /\ TheCall.outcome = "saved")
       => \A cloud \in {Unique(Flatten(fs[TheCall.in].mesh))} :
          \A simplices \in {ConvexHull(cloud).simplices} :
          \A outm \in {fs'[TheCall.out].mesh} :
             /\ Len(outm) = Len(simplices)
             /\ \A i \in 1..Len(outm) : \A k \in 1..3 :
                  outm[i][k] = cloud[simplices[i][k]]
             /\ PointSet(outm) \subseteq Range(cloud)
             /\ Range(cloud) \subseteq PointSet(fs[TheCall.in].mesh)]_vars

C10_Witness ==
  \E i \in 1..Len(calls) :
    /\ calls[i].outcome = "saved"
    /\ IsFile(fs, calls[i].out)
    /\ Len(fs[calls[i].out].mesh) = 4
    /\ calls[i].in # calls[i].out
    /\ IsFile(fs, calls[i].in)
    /\ Cardinality(PointSet(fs[calls[i].in].mesh)) = 5

====
